---- MODULE Spec2Model ----
(***************************************************************************)
(* Model of the eeros block I/O core: SIUnit, the arity-polymorphic        *)
(* Blockio base, the Mul and DeMux leaf blocks.                            *)
(*                                                                         *)
(* One block is declared (its template arguments are drawn in Init), its   *)
(* translation unit is either rejected by the compiler or the block is     *)
(* constructed, and afterwards cycles, upstream writes and accessor calls  *)
(* interleave in any order (single caller thread).                         *)
(***************************************************************************)
EXTENDS Integers, Sequences, FiniteSets, TLC

VARIABLES
  kind,      \* "Blockio", "Mul" or "DeMux": the class that is instantiated
  name,      \* Block::getName() of the block
  N,         \* template argument N of the Blockio base
  M,         \* template argument M of the Blockio base
  Uin,       \* template argument Uin of the Blockio base (sequence of SIUnit)
  Uout,      \* template argument Uout of the Blockio base (sequence of SIUnit)
  mulUin,    \* template argument Uin of Mul (units of in1, in2), <<>> otherwise
  func,      \* "none": Blockio(), "user": Blockio(f)
  phase,     \* "declared", "rejected" (ill-formed program), "built" (constructed)
  request,   \* the ill-formed call site that made the build fail, or NoRequest
  in,        \* Blockio::in
  out,       \* Blockio::out
  in1,       \* Mul::in1 (<<>> when the block is no Mul)
  in2,       \* Mul::in2
  lastOp,    \* the last operation performed on the block
  ret,       \* the port reference the last accessor call returned, or NoPort
  fault,     \* the exception the last accessor call threw, or NoFault
  u1, u2, u3,\* operands of the SIUnit comparisons
  res,       \* results of the SIUnit comparisons, or NoResult
  upstream,  \* per input, the output it is connected to (unit, value type) or NoOutput
  pc,        \* where the block's cycle operation stands, Idle between cycles
  snap,      \* the input signals the running (or last) cycle read, or NoSnap
  cycles,    \* invocations of Blockio::run() (the cycle operation leaf blocks override)
  funcRuns,  \* invocations of the stored computation func
  hal,       \* a ScalableInput's parameters, or NoScalableInput
  twin       \* two blocks declared with the same output side, or NoTwin

vars == <<kind, name, N, M, Uin, Uout, mulUin, func, phase, request, in, out,
          in1, in2, lastOp, ret, fault, u1, u2, u3, res,
          upstream, pc, snap, cycles, funcRuns, hal, twin>>

blockVars == <<kind, name, N, M, Uin, Uout, mulUin, func, phase, request, in, out,
               in1, in2, lastOp, ret, fault>>

unitVars == <<u1, u2, u3, res>>

auxVars == <<upstream, pc, snap, cycles, funcRuns, hal, twin>>

(***************************************************************************)
(* Bounds of the model.                                                    *)
(***************************************************************************)
MaxPorts == 2     \* largest N and M that are declared
MaxVal == 1       \* signal values are 0..MaxVal
MaxTs == 1        \* timestamps are 0..MaxTs, 0 being the empty timestamp
MaxExp == 1       \* exponents of the generated units are -MaxExp..MaxExp

UINT8 == 256      \* number of values of uint8_t

(***************************************************************************)
(* SIUnit                                                                  *)
(***************************************************************************)
Members == <<"length", "mass", "time", "electric_current",
             "thermodynamic_temperature", "amount_of_substance",
             "luminous_intensity", "radian">>

create(l, m, t, ec, tt, am, li, r) ==
  [length |-> l, mass |-> m, time |-> t, electric_current |-> ec,
   thermodynamic_temperature |-> tt, amount_of_substance |-> am,
   luminous_intensity |-> li, radian |-> r]

Dimensionless == create(0, 0, 0, 0, 0, 0, 0, FALSE)

Watt == create(2, 1, -3, 0, 0, 0, 0, FALSE)
Newton == create(1, 1, -2, 0, 0, 0, 0, FALSE)
Joule == create(2, 1, -2, 0, 0, 0, 0, FALSE)
Volt == create(2, 1, -3, -1, 0, 0, 0, FALSE)
Radian == create(0, 0, 0, 0, 0, 0, 0, TRUE)

\* <=> on int
CompareInt(a, b) == IF a < b THEN -1 ELSE IF a > b THEN 1 ELSE 0

\* <=> on bool: false < true
CompareBool(a, b) == CompareInt(IF a THEN 1 ELSE 0, IF b THEN 1 ELSE 0)

\* <=> of the k-th member, the radian flag left out of the comparison
MemberCompare_RadianIgnored(a, b, k) ==
  IF k = 8 THEN 0 ELSE CompareInt(a[Members[k]], b[Members[k]])

\* <=> of the k-th member in declaration order
MemberCompare(a, b, k) ==
  IF k = 8 THEN CompareBool(a.radian, b.radian)
  ELSE CompareInt(a[Members[k]], b[Members[k]])

\* defaulted operator<=>: the first member, in declaration order, that differs decides
RECURSIVE ThreeWayFrom(_, _, _)
ThreeWayFrom(a, b, k) ==
  IF k > Len(Members) THEN 0
  ELSE LET c == MemberCompare(a, b, k)
       IN IF c # 0 THEN c ELSE ThreeWayFrom(a, b, k + 1)

ThreeWay(a, b) == ThreeWayFrom(a, b, 1)

\* defaulted operator==: memberwise
SIUnitEq(a, b) ==
  /\ a.length = b.length
  /\ a.mass = b.mass
  /\ a.time = b.time
  /\ a.electric_current = b.electric_current
  /\ a.thermodynamic_temperature = b.thermodynamic_temperature
  /\ a.amount_of_substance = b.amount_of_substance
  /\ a.luminous_intensity = b.luminous_intensity
  /\ a.radian = b.radian

\* createArray filling the array with Radian in place of create()
generateNSizeArray_RadianFilled(n) == [i \in 1..n |-> Radian]

\* SIUnit::generateNSizeArray<n>(): n dimensionless units
generateNSizeArray(n) == [i \in 1..n |-> Dimensionless]

(***************************************************************************)
(* Signal and Port (Input / Output)                                        *)
(***************************************************************************)
Signal(v, t) == [value |-> v, timestamp |-> t]

\* the signals an upstream block may hold: any value with any timestamp
SigVals == {Signal(v, t) : v \in 0..MaxVal, t \in 0..MaxTs}

\* the signals written around a generic block: sample k carries value k at time k
GenericSigVals == {Signal(k, IF k <= MaxTs THEN k ELSE MaxTs) : k \in 0..MaxVal}

\* the vector-valued signals of length n a demultiplexer reads: the zero vector and
\* the vectors whose components count up from a base value, with any timestamp
VecVals(n) ==
  {[k \in 1..n |-> 0]} \cup {[k \in 1..n |-> (b + k) % (MaxVal + 1)] : b \in 0..MaxVal}

VecSigVals(n) == {Signal(v, t) : v \in VecVals(n), t \in 0..MaxTs}

NoBlock == "nullptr"

\* a default-constructed port tagged with unit u, holding signal s
Port(u, s) == [unit |-> u, owner |-> NoBlock, setOwnerCalls |-> 0, signal |-> s]

\* Port::setOwner(block)
setOwner(p, block) == [p EXCEPT !.owner = block, !.setOwnerCalls = @ + 1]

\* Signal::clear(): the type's zero and the empty timestamp
clear(p) == [p EXCEPT !.signal = Signal(0, 0)]

\* Input(Block* owner): constructed with its owner
InputOwnedBy(u, s, block) == setOwner(Port(u, s), block)

(***************************************************************************)
(* Blockio: the storage of a side                                          *)
(***************************************************************************)
None(n) == n = 0
One(n) == n = 1
Multiple(n) == n > 1

\* struct Empty {}
Empty == [shape |-> "Empty", ports |-> <<>>]

\* the declared units of a side that decide whether it is a std::array
allDimensionLess(units) == \A i \in DOMAIN units : SIUnitEq(units[i], Dimensionless)

\* createInputs storing equally declared inputs as the array of dimensionless inputs
createInputs_SharedUnitAsArray(n, units, s) ==
  IF \A i \in 1..n : units[i] = units[1]
  THEN [shape |-> "Array", ports |-> [i \in 1..n |-> Port(Dimensionless, s)]]
  ELSE [shape |-> "Tuple", ports |-> [i \in 1..n |-> Port(units[i], s)]]

\* createInputs deciding homogeneity by comparing every unit with the first one
createInputs_AllEqualFirst(n, units, s) ==
  IF \A i \in DOMAIN units : SIUnitEq(units[i], units[1])
  THEN [shape |-> "Array", ports |-> [i \in 1..n |-> Port(units[1], s)]]
  ELSE [shape |-> "Tuple", ports |-> [i \in 1..n |-> Port(units[i], s)]]

\* createInputs: std::array of dimensionless inputs, or std::tuple of Input<Tin, Uin[Is]>
createInputs(n, units, s) ==
  IF allDimensionLess(units)
  THEN [shape |-> "Array", ports |-> [i \in 1..n |-> Port(Dimensionless, s)]]
  ELSE [shape |-> "Tuple", ports |-> [i \in 1..n |-> Port(units[i], s)]]

\* generateNInputs: the member `in`, every port default-constructed holding signal s
generateNInputs(n, units, s) ==
  IF One(n) THEN [shape |-> "Single", ports |-> <<Port(units[1], s)>>]
  ELSE IF None(n) THEN Empty
  ELSE createInputs(n, units, s)

\* createOutputs: std::array of dimensionless outputs, or std::tuple of Output<Tout, Uout[Is]>
createOutputs(m, units, s) ==
  IF allDimensionLess(units)
  THEN [shape |-> "Array", ports |-> [i \in 1..m |-> Port(Dimensionless, s)]]
  ELSE [shape |-> "Tuple", ports |-> [i \in 1..m |-> Port(units[i], s)]]

\* generateMOutputs: the member `out`, every port default-constructed holding signal s
generateMOutputs(m, units, s) ==
  IF One(m) THEN [shape |-> "Single", ports |-> <<Port(units[1], s)>>]
  ELSE IF None(m) THEN Empty
  ELSE createOutputs(m, units, s)

\* initalizeInputsAndOutputs clearing the output of the One<M> branch only
initalizeOutputs_NoClearForMultiple(m, o, this) ==
  IF One(m)
  THEN [o EXCEPT !.ports = [i \in DOMAIN o.ports |-> clear(setOwner(o.ports[i], this))]]
  ELSE IF Multiple(m)
  THEN [o EXCEPT !.ports = [i \in DOMAIN o.ports |-> setOwner(o.ports[i], this)]]
  ELSE o

\* the outputs after initalizeInputsAndOutputs: owner set, signal cleared
initalizeOutputs(m, o, this) ==
  IF One(m) \/ Multiple(m)
  THEN [o EXCEPT !.ports = [i \in DOMAIN o.ports |-> clear(setOwner(o.ports[i], this))]]
  ELSE o

\* initalizeInputsAndOutputs without the Multiple<N> branch for the inputs
initalizeInputs_OnlySingle(n, i, this) ==
  IF One(n)
  THEN [i EXCEPT !.ports = [k \in DOMAIN i.ports |-> setOwner(i.ports[k], this)]]
  ELSE i

\* the inputs after initalizeInputsAndOutputs: owner set
initalizeInputs(n, i, this) ==
  IF One(n) \/ Multiple(n)
  THEN [i EXCEPT !.ports = [k \in DOMAIN i.ports |-> setOwner(i.ports[k], this)]]
  ELSE i

\* the types of the members `in` and `out`, known from the template arguments alone
InShape == generateNInputs(N, Uin, Signal(0, 0)).shape
OutShape == generateMOutputs(M, Uout, Signal(0, 0)).shape

(***************************************************************************)
(* Blockio: accessors                                                      *)
(***************************************************************************)
NoPort == [side |-> "none", slot |-> 0]
NoFault == [type |-> "none", what |-> <<>>]

\* IndexOutOfBoundsFault(message): the message as the strings concatenated into it
IndexOutOfBoundsFault(message) == [type |-> "IndexOutOfBoundsFault", what |-> message]

\* a call that returns a reference to element `slot` of the storage of `side`
Returned(side, slot) == [ret |-> [side |-> side, slot |-> slot], fault |-> NoFault]

\* a call that throws
Thrown(f) == [ret |-> NoPort, fault |-> f]

\* template<size_t I> getIn() requires Multiple<N>: std::get<I>(in)
getInAt(I) == Returned("in", I)

\* getIn(uint8_t index) with the bounds check off by one
getInIndex_OffByOne(index) ==
  IF index > N
  THEN Thrown(IndexOutOfBoundsFault(
         <<"Trying to get inexistent element of input vector in block '", name, "'">>))
  ELSE Returned("in", index)

\* getIn(uint8_t index) returning the neighbouring element
getInIndex_Neighbour(index) ==
  IF index >= N
  THEN Thrown(IndexOutOfBoundsFault(
         <<"Trying to get inexistent element of input vector in block '", name, "'">>))
  ELSE Returned("in", (index + 1) % N)

\* getIn(uint8_t index) requires Multiple<N>
getInIndex(index) ==
  IF index >= N
  THEN Thrown(IndexOutOfBoundsFault(
         <<"Trying to get inexistent element of input vector in block '", name, "'">>))
  ELSE Returned("in", index)

\* getIn() requires One<N>
getInOne == Returned("in", 0)

\* template<size_t I> getOut() requires Multiple<M>: std::get<I>(out)
getOutAt(I) == Returned("out", I)

\* getOut(uint8_t index) requires Multiple<M>
getOutIndex(index) ==
  IF index >= M
  THEN Thrown(IndexOutOfBoundsFault(
         <<"Trying to get inexistent element of output vector in block '", name, "'">>))
  ELSE Returned("out", index)

\* getOut() requires One<M>
getOutOne == Returned("out", 0)

\* Mul::getIn1(), Mul::getIn2()
getIn1 == Returned("in1", 0)
getIn2 == Returned("in2", 0)

\* the port a returned reference designates
PortAt(ref) ==
  CASE ref.side = "in" -> in.ports[ref.slot + 1]
    [] ref.side = "out" -> out.ports[ref.slot + 1]
    [] ref.side = "in1" -> in1
    [] ref.side = "in2" -> in2

\* the requires-clauses alone, the bodies not looked at
WellFormed_RequiresOnly(acc, I) ==
  CASE acc = "getIn" -> One(N)
    [] acc = "getInAt" -> Multiple(N) /\ I < N
    [] acc = "getInIndex" -> Multiple(N)
    [] acc = "getOut" -> One(M)
    [] acc = "getOutAt" -> Multiple(M) /\ I < M
    [] acc = "getOutIndex" -> Multiple(M)
    [] acc = "getIn1" -> kind = "Mul"
    [] acc = "getIn2" -> kind = "Mul"
    [] acc = "run" -> (kind = "DeMux" => OutShape = "Array")
    [] acc = "portCount" -> I < UINT8

\* whether a call site (or, for "run", the overridden cycle operation) compiles
\* against the block as declared: requires-clauses, and the operations the body
\* applies to the members `in` and `out`
WellFormed(acc, I) ==
  CASE acc = "getIn" -> One(N)
    [] acc = "getInAt" -> Multiple(N) /\ I < N
    [] acc = "getInIndex" -> Multiple(N) /\ InShape = "Array"
    [] acc = "getOut" -> One(M)
    [] acc = "getOutAt" -> Multiple(M) /\ I < M
    [] acc = "getOutIndex" -> Multiple(M) /\ OutShape = "Array"
    [] acc = "getIn1" -> kind = "Mul"
    [] acc = "getIn2" -> kind = "Mul"
    [] acc = "run" -> (kind = "DeMux" => OutShape = "Array")
    [] acc = "portCount" -> I < UINT8

(***************************************************************************)
(* Cycle operations                                                        *)
(***************************************************************************)
setValue(p, v) == [p EXCEPT !.signal = Signal(v, @.timestamp)]
setTimestamp(p, t) == [p EXCEPT !.signal = Signal(@.value, t)]

\* Blockio::run() writing the outputs whether or not a computation was given
Blockio_run_AlwaysWrites(o, w) ==
  [o EXCEPT !.ports = [k \in DOMAIN o.ports |-> [o.ports[k] EXCEPT !.signal = w]]]

\* Blockio::run(): func(), the empty lambda or the computation given at construction;
\* a given computation leaves signal w in every output
Blockio_run(o, w) ==
  IF func = "none" THEN o
  ELSE [o EXCEPT !.ports = [k \in DOMAIN o.ports |-> [o.ports[k] EXCEPT !.signal = w]]]

\* Mul::run() taking the timestamp of the second input
Mul_run_SecondTimestamp(o, a, b) ==
  LET prod == a.signal.value * b.signal.value
  IN [o EXCEPT !.ports = [k \in DOMAIN o.ports |->
        setTimestamp(setValue(o.ports[k], prod), b.signal.timestamp)]]

\* Mul::run()
Mul_run(o, a, b) ==
  LET prod == a.signal.value * b.signal.value
  IN [o EXCEPT !.ports = [k \in DOMAIN o.ports |->
        setTimestamp(setValue(o.ports[k], prod), a.signal.timestamp)]]

\* DeMux::run() with the loop starting at 1
DeMux_run_LoopFromOne(o, i) ==
  [o EXCEPT !.ports = [k \in DOMAIN o.ports |->
     IF k = 1 THEN o.ports[k]
     ELSE setTimestamp(setValue(o.ports[k], i.ports[1].signal.value[k]),
                       i.ports[1].signal.timestamp)]]

\* DeMux::run(): for (i = 0; i < N; i++) out[i] gets component i and the input's timestamp
DeMux_run(o, i) ==
  [o EXCEPT !.ports = [k \in DOMAIN o.ports |->
     setTimestamp(setValue(o.ports[k], i.ports[1].signal.value[k]),
                  i.ports[1].signal.timestamp)]]

(***************************************************************************)
(* The declared block                                                      *)
(***************************************************************************)
\* Block::setName: a generic block is named "b1", a leaf block "b1" or "b2"
Names == {"b1", "b2"}

\* the units a port is declared with
UnitChoices == {Dimensionless, Volt}

\* unit arrays of length n: the default argument (no unit array written), every port
\* declared with the same unit, or the first port declared with Volt and all others
\* left dimensionless
UnitArrays(n) ==
  {generateNSizeArray(n)}
  \cup {[i \in 1..n |-> a] : a \in UnitChoices \ {Dimensionless}}
  \cup {[i \in 1..n |-> IF i = 1 THEN Volt ELSE Dimensionless]}

AllUnitArrays == UNION {UnitArrays(n) : n \in 0..MaxPorts}

\* Blockio<N, M, Tin, Tout, Uin, Uout>, built by Blockio() or by Blockio(f)
BlockioDecls ==
  {d \in [kind : {"Blockio"}, name : {"b1"}, N : 0..MaxPorts, M : 0..MaxPorts,
          Uin : AllUnitArrays, Uout : AllUnitArrays, mulUin : {<<>>},
          func : {"none", "user"}] :
     Len(d.Uin) = d.N /\ Len(d.Uout) = d.M}

\* Mul<In1T, In2T, OutT, Uin, Uout> : Blockio<0, 1, OutT, OutT, {}, {Uout}>
MulDecls ==
  {[kind |-> "Mul", name |-> nm, N |-> 0, M |-> 1, Uin |-> generateNSizeArray(0),
    Uout |-> <<uo>>, mulUin |-> ui, func |-> "none"] :
     nm \in Names, ui \in UnitArrays(2), uo \in UnitChoices}

\* DeMux<N, T, C, Uin, Uout> : Blockio<1, N, C, T, {Uin}, Uout>
DeMuxDecls ==
  {d \in [kind : {"DeMux"}, name : Names, N : {1}, M : 1..MaxPorts, Uin : UnitArrays(1),
          Uout : AllUnitArrays, mulUin : {<<>>}, func : {"none"}] :
     Len(d.Uout) = d.M}

Declarations == BlockioDecls \cup MulDecls \cup DeMuxDecls

NotConstructed == [shape |-> "NotConstructed", ports |-> <<>>]
Absent == Port(Dimensionless, Signal(0, 0))
NoRequest == [acc |-> "none", I |-> 0]
NoResult == [done |-> FALSE]

\* the compile-time indices and the runtime indices callers pass
CTIndices == 0..MaxPorts
RawIndices == (0..MaxPorts) \cup {UINT8 - 1, UINT8, UINT8 + 1}

Requests ==
  {[acc |-> a, I |-> 0] :
     a \in {"getIn", "getInIndex", "getOut", "getOutIndex", "getIn1", "getIn2", "run"}}
  \cup {[acc |-> a, I |-> i] : a \in {"getInAt", "getOutAt"}, i \in CTIndices}
  \cup {[acc |-> "portCount", I |-> c] : c \in {UINT8 - 1, UINT8}}

\* the signal an input shows before anything was written upstream: a cleared output
InitialInput == IF kind = "DeMux" THEN Signal([k \in 1..M |-> 0], 0) ELSE Signal(0, 0)

This == name

Op(o, a) == [op |-> o, arg |-> a]

\* the inputs a connection can be made to: in[0..N-1], or in1 and in2 of a Mul
NumInputs == IF kind = "Mul" THEN 2 ELSE N

NoOutput == [unit |-> Dimensionless, type |-> "none"]
Idle == [at |-> "idle", i |-> 0]
NoSnap == <<>>
NoScalableInput == [id |-> "none"]
NoTwin == [built |-> FALSE]

\* nothing connected, no cycle begun, no ScalableInput and no second block around
AuxInit ==
  /\ upstream = [k \in 1..NumInputs |-> NoOutput]
  /\ pc = Idle
  /\ snap = NoSnap
  /\ cycles = 0
  /\ funcRuns = 0
  /\ hal = NoScalableInput
  /\ twin = NoTwin

Init ==
  /\ \E d \in Declarations :
       /\ kind = d.kind
       /\ name = d.name
       /\ N = d.N
       /\ M = d.M
       /\ Uin = d.Uin
       /\ Uout = d.Uout
       /\ mulUin = d.mulUin
       /\ func = d.func
  /\ phase = "declared"
  /\ request = NoRequest
  /\ in = NotConstructed
  /\ out = NotConstructed
  /\ in1 = Absent
  /\ in2 = Absent
  /\ lastOp = Op("declare", 0)
  /\ ret = NoPort
  /\ fault = NoFault
  /\ u1 = Dimensionless
  /\ u2 = Dimensionless
  /\ u3 = Dimensionless
  /\ res = NoResult
  /\ AuxInit

(***************************************************************************)
(* Build: a program with an ill-formed call site never runs                *)
(***************************************************************************)
RejectBuild ==
  /\ phase = "declared"
  /\ \E r \in Requests :
       /\ ~WellFormed(r.acc, r.I)
       /\ request' = r
  /\ phase' = "rejected"
  /\ lastOp' = Op("reject", 0)
  /\ UNCHANGED <<kind, name, N, M, Uin, Uout, mulUin, func, in, out, in1, in2, ret, fault>>
  /\ UNCHANGED unitVars
  /\ UNCHANGED auxVars

\* Blockio(f) : func(f), in(generateNInputs()), out(generateMOutputs())
\* { initalizeInputsAndOutputs(); }, then Mul() : in1(this), in2(this)
Construct ==
  /\ phase = "declared"
  /\ WellFormed("run", 0)
  /\ \E s \in SigVals :
       /\ in' = initalizeInputs(N, generateNInputs(N, Uin, InitialInput), This)
       /\ out' = initalizeOutputs(M, generateMOutputs(M, Uout, s), This)
  /\ IF kind = "Mul"
     THEN /\ in1' = InputOwnedBy(mulUin[1], Signal(0, 0), This)
          /\ in2' = InputOwnedBy(mulUin[2], Signal(0, 0), This)
     ELSE UNCHANGED <<in1, in2>>
  /\ phase' = "built"
  /\ lastOp' = Op("construct", 0)
  /\ UNCHANGED <<kind, name, N, M, Uin, Uout, mulUin, func, request, ret, fault>>
  /\ UNCHANGED unitVars
  /\ UNCHANGED auxVars

(***************************************************************************)
(* Cycles and upstream writes                                              *)
(***************************************************************************)
Run ==
  /\ phase = "built"
  /\ kind = "Blockio"
  /\ \E w \in GenericSigVals : out' = Blockio_run(out, w)
  /\ lastOp' = Op("run", 0)
  /\ UNCHANGED <<kind, name, N, M, Uin, Uout, mulUin, func, phase, request, in, in1, in2,
                 ret, fault>>
  /\ UNCHANGED unitVars
  /\ UNCHANGED auxVars

MulRun ==
  /\ phase = "built"
  /\ kind = "Mul"
  /\ out' = Mul_run(out, in1, in2)
  /\ lastOp' = Op("run", 0)
  /\ UNCHANGED <<kind, name, N, M, Uin, Uout, mulUin, func, phase, request, in, in1, in2,
                 ret, fault>>
  /\ UNCHANGED unitVars
  /\ UNCHANGED auxVars

DeMuxRun ==
  /\ phase = "built"
  /\ kind = "DeMux"
  /\ out' = DeMux_run(out, in)
  /\ lastOp' = Op("run", 0)
  /\ UNCHANGED <<kind, name, N, M, Uin, Uout, mulUin, func, phase, request, in, in1, in2,
                 ret, fault>>
  /\ UNCHANGED unitVars
  /\ UNCHANGED auxVars

\* the upstream output an input is connected to gets a new signal
UpstreamWrite ==
  /\ phase = "built"
  /\ \/ /\ kind = "Blockio"
        /\ \E k \in DOMAIN in.ports, s \in GenericSigVals :
             in' = [in EXCEPT !.ports[k].signal = s]
        /\ UNCHANGED <<in1, in2>>
     \/ /\ kind = "DeMux"
        /\ \E s \in VecSigVals(M) : in' = [in EXCEPT !.ports[1].signal = s]
        /\ UNCHANGED <<in1, in2>>
     \/ /\ kind = "Mul"
        /\ \E s \in SigVals : in1' = [in1 EXCEPT !.signal = s]
        /\ UNCHANGED <<in, in2>>
     \/ /\ kind = "Mul"
        /\ \E s \in SigVals : in2' = [in2 EXCEPT !.signal = s]
        /\ UNCHANGED <<in, in1>>
  /\ lastOp' = Op("write", 0)
  /\ UNCHANGED <<kind, name, N, M, Uin, Uout, mulUin, func, phase, request, out, ret, fault>>
  /\ UNCHANGED unitVars
  /\ UNCHANGED auxVars

(***************************************************************************)
(* Accessor calls                                                          *)
(***************************************************************************)
Call(o, a, r) ==
  /\ lastOp' = Op(o, a)
  /\ ret' = r.ret
  /\ fault' = r.fault
  /\ UNCHANGED <<kind, name, N, M, Uin, Uout, mulUin, func, phase, request, in, out,
                 in1, in2>>
  /\ UNCHANGED unitVars
  /\ UNCHANGED auxVars

GetIn ==
  /\ phase = "built"
  /\ WellFormed("getIn", 0)
  /\ Call("getIn", 0, getInOne)

GetInAt ==
  /\ phase = "built"
  /\ \E I \in CTIndices : WellFormed("getInAt", I) /\ Call("getInAt", I, getInAt(I))

\* getIn(index) called with the argument as the caller wrote it, not converted
GetInIndex_NoConversion ==
  /\ phase = "built"
  /\ WellFormed("getInIndex", 0)
  /\ \E raw \in RawIndices : Call("getInIndex", raw, getInIndex(raw))

\* the argument is converted to uint8_t
GetInIndex ==
  /\ phase = "built"
  /\ WellFormed("getInIndex", 0)
  /\ \E raw \in RawIndices : Call("getInIndex", raw, getInIndex(raw % UINT8))

GetOut ==
  /\ phase = "built"
  /\ WellFormed("getOut", 0)
  /\ Call("getOut", 0, getOutOne)

GetOutAt ==
  /\ phase = "built"
  /\ \E I \in CTIndices : WellFormed("getOutAt", I) /\ Call("getOutAt", I, getOutAt(I))

\* getOut(uint8_t index) clearing the outputs before it throws
GetOutIndex_ClearsOnFault ==
  /\ phase = "built"
  /\ WellFormed("getOutIndex", 0)
  /\ \E raw \in RawIndices :
       LET r == getOutIndex(raw % UINT8)
       IN /\ lastOp' = Op("getOutIndex", raw)
          /\ ret' = r.ret
          /\ fault' = r.fault
          /\ out' = IF r.fault = NoFault THEN out
                    ELSE [out EXCEPT !.ports = [k \in DOMAIN out.ports |-> clear(out.ports[k])]]
  /\ UNCHANGED <<kind, name, N, M, Uin, Uout, mulUin, func, phase, request, in, in1, in2>>
  /\ UNCHANGED unitVars
  /\ UNCHANGED auxVars

GetOutIndex ==
  /\ phase = "built"
  /\ WellFormed("getOutIndex", 0)
  /\ \E raw \in RawIndices : Call("getOutIndex", raw, getOutIndex(raw % UINT8))

GetIn1 ==
  /\ phase = "built"
  /\ WellFormed("getIn1", 0)
  /\ Call("getIn1", 0, getIn1)

GetIn2 ==
  /\ phase = "built"
  /\ WellFormed("getIn2", 0)
  /\ Call("getIn2", 0, getIn2)

Next ==
  \/ RejectBuild
  \/ Construct
  \/ Run
  \/ MulRun
  \/ DeMuxRun
  \/ UpstreamWrite
  \/ GetIn
  \/ GetInAt
  \/ GetInIndex
  \/ GetOut
  \/ GetOutAt
  \/ GetOutIndex
  \/ GetIn1
  \/ GetIn2

Spec == Init /\ [][Next]_vars

(***************************************************************************)
(* SIUnit comparisons on their own: the operands are drawn in InitUnit and *)
(* CompareUnits applies operator== and operator<=> to them                 *)
(***************************************************************************)
Exponents == (-MaxExp)..MaxExp

\* the named units, the units with one exponent set, and radian variants
UnitPool ==
  {Dimensionless, Watt, Newton, Joule, Volt, Radian}
  \cup {create(e, 0, 0, 0, 0, 0, 0, r) : e \in Exponents, r \in BOOLEAN}
  \cup {create(0, e, 0, 0, 0, 0, 0, FALSE) : e \in Exponents}
  \cup {create(0, 0, e, 0, 0, 0, 0, FALSE) : e \in Exponents}
  \cup {create(0, 0, 0, e, 0, 0, 0, FALSE) : e \in Exponents}
  \cup {create(0, 0, 0, 0, e, 0, 0, FALSE) : e \in Exponents}
  \cup {create(0, 0, 0, 0, 0, e, 0, FALSE) : e \in Exponents}
  \cup {create(0, 0, 0, 0, 0, 0, e, FALSE) : e \in Exponents}

InitUnit ==
  /\ u1 \in UnitPool
  /\ u2 \in UnitPool
  /\ u3 \in UnitPool
  /\ res = NoResult
  /\ kind = "Blockio"
  /\ name = "b1"
  /\ N = 0
  /\ M = 0
  /\ Uin = <<>>
  /\ Uout = <<>>
  /\ mulUin = <<>>
  /\ func = "none"
  /\ phase = "declared"
  /\ request = NoRequest
  /\ in = NotConstructed
  /\ out = NotConstructed
  /\ in1 = Absent
  /\ in2 = Absent
  /\ lastOp = Op("declare", 0)
  /\ ret = NoPort
  /\ fault = NoFault
  /\ AuxInit

CompareUnits ==
  /\ ~res.done
  /\ res' = [done |-> TRUE,
             eq11 |-> SIUnitEq(u1, u1), eq12 |-> SIUnitEq(u1, u2),
             eq21 |-> SIUnitEq(u2, u1), eq23 |-> SIUnitEq(u2, u3),
             eq13 |-> SIUnitEq(u1, u3),
             c11 |-> ThreeWay(u1, u1), c12 |-> ThreeWay(u1, u2),
             c21 |-> ThreeWay(u2, u1), c23 |-> ThreeWay(u2, u3),
             c13 |-> ThreeWay(u1, u3)]
  /\ UNCHANGED <<u1, u2, u3>>
  /\ UNCHANGED blockVars
  /\ UNCHANGED auxVars

NextUnit == CompareUnits

SpecUnit == InitUnit /\ [][NextUnit]_vars

(***************************************************************************)
(* Cycles step by step under the single caller: one block's run() is       *)
(* entered from Idle and returns to Idle before any other block runs       *)
(***************************************************************************)
MaxCycles == 2

\* run() { func(); }: the invocations of func after one more run()
Blockio_run_funcCalls(c) == c + 1

\* one cycle of a generic block
CycleRun ==
  /\ phase = "built"
  /\ kind = "Blockio"
  /\ pc = Idle
  /\ cycles < MaxCycles
  /\ \E w \in GenericSigVals : out' = Blockio_run(out, w)
  /\ funcRuns' = Blockio_run_funcCalls(funcRuns)
  /\ cycles' = cycles + 1
  /\ lastOp' = Op("run", 0)
  /\ UNCHANGED <<kind, name, N, M, Uin, Uout, mulUin, func, phase, request, in, in1, in2,
                 ret, fault>>
  /\ UNCHANGED unitVars
  /\ UNCHANGED <<upstream, pc, snap, hal, twin>>

\* Mul::run() returning after out.getSignal().setValue(prod)
MulSetValue_ReturnsEarly ==
  /\ phase = "built"
  /\ kind = "Mul"
  /\ pc = Idle
  /\ snap' = <<in1.signal, in2.signal>>
  /\ out' = [out EXCEPT !.ports[1] = setValue(@, in1.signal.value * in2.signal.value)]
  /\ lastOp' = Op("run", 0)
  /\ UNCHANGED <<kind, name, N, M, Uin, Uout, mulUin, func, phase, request, in, in1, in2,
                 ret, fault>>
  /\ UNCHANGED unitVars
  /\ UNCHANGED <<upstream, pc, cycles, funcRuns, hal, twin>>

\* Mul::run(), first part: prod = in1 * in2; out.getSignal().setValue(prod)
MulSetValue ==
  /\ phase = "built"
  /\ kind = "Mul"
  /\ pc = Idle
  /\ snap' = <<in1.signal, in2.signal>>
  /\ out' = [out EXCEPT !.ports[1] = setValue(@, in1.signal.value * in2.signal.value)]
  /\ pc' = [at |-> "setTimestamp", i |-> 0]
  /\ lastOp' = Op("run", 0)
  /\ UNCHANGED <<kind, name, N, M, Uin, Uout, mulUin, func, phase, request, in, in1, in2,
                 ret, fault>>
  /\ UNCHANGED unitVars
  /\ UNCHANGED <<upstream, cycles, funcRuns, hal, twin>>

\* Mul::run(), second part: out.getSignal().setTimestamp(in1.getSignal().getTimestamp())
MulSetTimestamp ==
  /\ kind = "Mul"
  /\ pc.at = "setTimestamp"
  /\ out' = [out EXCEPT !.ports[1] = setTimestamp(@, in1.signal.timestamp)]
  /\ pc' = Idle
  /\ UNCHANGED <<kind, name, N, M, Uin, Uout, mulUin, func, phase, request, in, in1, in2,
                 lastOp, ret, fault>>
  /\ UNCHANGED unitVars
  /\ UNCHANGED <<upstream, snap, cycles, funcRuns, hal, twin>>

\* DeMux::run(), loop body, first statement: out[i] gets component i of the input
DeMuxSetValue ==
  /\ phase = "built"
  /\ kind = "DeMux"
  /\ \/ pc = Idle /\ snap' = <<in.ports[1].signal>>
     \/ pc.at = "setValue" /\ snap' = snap
  /\ out' = [out EXCEPT !.ports[pc.i + 1] = setValue(@, in.ports[1].signal.value[pc.i + 1])]
  /\ pc' = [at |-> "setTimestamp", i |-> pc.i]
  /\ lastOp' = Op("run", 0)
  /\ UNCHANGED <<kind, name, N, M, Uin, Uout, mulUin, func, phase, request, in, in1, in2,
                 ret, fault>>
  /\ UNCHANGED unitVars
  /\ UNCHANGED <<upstream, cycles, funcRuns, hal, twin>>

\* DeMux::run(), loop body, second statement and i++: out[i] gets the input's timestamp
DeMuxSetTimestamp ==
  /\ kind = "DeMux"
  /\ pc.at = "setTimestamp"
  /\ out' = [out EXCEPT !.ports[pc.i + 1] = setTimestamp(@, in.ports[1].signal.timestamp)]
  /\ pc' = IF pc.i + 1 < M THEN [at |-> "setValue", i |-> pc.i + 1] ELSE Idle
  /\ UNCHANGED <<kind, name, N, M, Uin, Uout, mulUin, func, phase, request, in, in1, in2,
                 lastOp, ret, fault>>
  /\ UNCHANGED unitVars
  /\ UNCHANGED <<upstream, snap, cycles, funcRuns, hal, twin>>

\* another block's cycle writes the output this block's input is connected to: it
\* runs only while this block's run() is not in progress
CycleUpstreamWrite ==
  /\ pc = Idle
  /\ UpstreamWrite

\* another block's cycle (or the scheduler) reads output `slot` of this block
DownstreamRead ==
  /\ phase = "built"
  /\ pc = Idle
  /\ \E slot \in 0..(M - 1) : lastOp' = Op("read", slot)
  /\ UNCHANGED <<kind, name, N, M, Uin, Uout, mulUin, func, phase, request, in, out,
                 in1, in2, ret, fault>>
  /\ UNCHANGED unitVars
  /\ UNCHANGED auxVars

NextCycle ==
  \/ Construct
  \/ CycleRun
  \/ MulSetValue
  \/ MulSetTimestamp
  \/ DeMuxSetValue
  \/ DeMuxSetTimestamp
  \/ CycleUpstreamWrite
  \/ DownstreamRead

SpecCycle == Init /\ [][NextCycle]_vars

(***************************************************************************)
(* HAL: the named units and the ScalableInput adapter on their own         *)
(***************************************************************************)
\* typeOfUnit with "V" registered as Watt
typeOfUnit_VoltAsWatt ==
  "W" :> Watt @@ "N" :> Newton @@ "J" :> Joule @@ "V" :> Watt @@ "rad" :> Radian

\* const std::map<std::string, SIUnit> typeOfUnit
typeOfUnit ==
  "W" :> Watt @@ "N" :> Newton @@ "J" :> Joule @@ "V" :> Volt @@ "rad" :> Radian

\* the values of type T passed for scale, offset, minIn and maxIn
HalVals == 0..MaxVal

\* ScalableInput(id, libHandle, scale, offset, minIn, maxIn, unit)
ScalableInput(id, scale, offset, minIn, maxIn, unit) ==
  [id |-> id, scale |-> scale, offset |-> offset, minIn |-> minIn, maxIn |-> maxIn,
   unit |-> unit]

getScale(h) == h.scale
getOffset(h) == h.offset
getUnit(h) == h.unit
getMinIn(h) == h.minIn
getMaxIn(h) == h.maxIn

setScale(h, s) == [h EXCEPT !.scale = s]
setOffset(h, o) == [h EXCEPT !.offset = o]
setUnit(h, u) == [h EXCEPT !.unit = u]

\* setMinIn refusing a lower bound above the upper bound
setMinIn_Clamped(h, v) == [h EXCEPT !.minIn = IF v > h.maxIn THEN h.maxIn ELSE v]

setMinIn(h, v) == [h EXCEPT !.minIn = v]
setMaxIn(h, v) == [h EXCEPT !.maxIn = v]

\* a ScalableInput constructed with any parameters, the unit defaulted or a named one
InitHal ==
  /\ \E sc \in HalVals, of \in HalVals, mn \in HalVals, mx \in HalVals,
        u \in {Dimensionless} \cup {typeOfUnit[nm] : nm \in DOMAIN typeOfUnit} :
       hal = ScalableInput("ai0", sc, of, mn, mx, u)
  /\ lastOp = Op("ScalableInput", 0)
  /\ kind = "Blockio"
  /\ name = "b1"
  /\ N = 0
  /\ M = 0
  /\ Uin = <<>>
  /\ Uout = <<>>
  /\ mulUin = <<>>
  /\ func = "none"
  /\ phase = "declared"
  /\ request = NoRequest
  /\ in = NotConstructed
  /\ out = NotConstructed
  /\ in1 = Absent
  /\ in2 = Absent
  /\ ret = NoPort
  /\ fault = NoFault
  /\ u1 = Dimensionless
  /\ u2 = Dimensionless
  /\ u3 = Dimensionless
  /\ res = NoResult
  /\ upstream = <<>>
  /\ pc = Idle
  /\ snap = NoSnap
  /\ cycles = 0
  /\ funcRuns = 0
  /\ twin = NoTwin

\* a setter call: the adapter changes as `h` says, nothing else does
HalCall(o, a, h) ==
  /\ hal' = h
  /\ lastOp' = Op(o, a)
  /\ UNCHANGED <<kind, name, N, M, Uin, Uout, mulUin, func, phase, request, in, out,
                 in1, in2, ret, fault>>
  /\ UNCHANGED unitVars
  /\ UNCHANGED <<upstream, pc, snap, cycles, funcRuns, twin>>

SetScale == \E v \in HalVals : HalCall("setScale", v, setScale(hal, v))
SetOffset == \E v \in HalVals : HalCall("setOffset", v, setOffset(hal, v))
SetMinIn == \E v \in HalVals : HalCall("setMinIn", v, setMinIn(hal, v))
SetMaxIn == \E v \in HalVals : HalCall("setMaxIn", v, setMaxIn(hal, v))

\* setUnit(typeOfUnit.at(nm)): the unit looked up by its name
SetUnit == \E nm \in DOMAIN typeOfUnit : HalCall("setUnit", nm, setUnit(hal, typeOfUnit[nm]))

NextHal ==
  \/ SetScale
  \/ SetOffset
  \/ SetMinIn
  \/ SetMaxIn
  \/ SetUnit

SpecHal == InitHal /\ [][NextHal]_vars

(***************************************************************************)
(* Two blocks side by side: the second differs from the first only in its  *)
(* input declarations, or only in its output declarations                  *)
(***************************************************************************)
\* the value types Tin and Tout
ValueTypes == {"double", "int"}

\* Blockio<N, M, Tin, Tout, Uin, Uout>
TwinDecls ==
  {d \in [N : 0..MaxPorts, M : 0..MaxPorts, Tin : ValueTypes, Tout : ValueTypes,
          Uin : AllUnitArrays, Uout : AllUnitArrays] :
     Len(d.Uin) = d.N /\ Len(d.Uout) = d.M}

InputDecl(d) == <<d.N, d.Tin, d.Uin>>
OutputDecl(d) == <<d.M, d.Tout, d.Uout>>

\* what a side is: its storage shape, and value type and unit tag of each port
Side(storage, type) ==
  [shape |-> storage.shape,
   ports |-> [k \in DOMAIN storage.ports |-> [unit |-> storage.ports[k].unit, type |-> type]]]

\* decltype(generateNInputs()) in
InputSide(d) == Side(generateNInputs(d.N, d.Uin, Signal(0, 0)), d.Tin)

\* decltype(generateMOutputs()) out, first definition of Blockio
OutputSide(d) == Side(generateMOutputs(d.M, d.Uout, Signal(0, 0)), d.Tout)

\* createOutputs of the second definition of Blockio: all_of over Uin, then
\* std::array<Output<Tin, SIUnit::create()>, N> or std::tuple<Output<Tin, Uout[Is]>...>
createOutputs2(d) ==
  IF allDimensionLess(d.Uin)
  THEN Side([shape |-> "Array",
             ports |-> [i \in 1..d.N |-> Port(Dimensionless, Signal(0, 0))]], d.Tin)
  ELSE Side([shape |-> "Tuple",
             ports |-> [i \in 1..d.M |-> Port(d.Uout[i], Signal(0, 0))]], d.Tin)

\* generateMOutputs of the second definition of Blockio
generateMOutputs2(d) ==
  IF One(d.M) THEN Side([shape |-> "Single",
                         ports |-> <<Port(d.Uout[1], Signal(0, 0))>>], d.Tout)
  ELSE IF None(d.M) THEN Side(Empty, d.Tout)
  ELSE createOutputs2(d)

\* two declarations, and which of the two definitions of Blockio they instantiate
InitTwin ==
  /\ \E a \in TwinDecls, b \in TwinDecls, defn \in {"first", "second"} :
       /\ a # b
       /\ InputDecl(a) = InputDecl(b) \/ OutputDecl(a) = OutputDecl(b)
       /\ twin = [built |-> FALSE, defn |-> defn, a |-> a, b |-> b]
  /\ lastOp = Op("declare", 0)
  /\ hal = NoScalableInput
  /\ kind = "Blockio"
  /\ name = "b1"
  /\ N = 0
  /\ M = 0
  /\ Uin = <<>>
  /\ Uout = <<>>
  /\ mulUin = <<>>
  /\ func = "none"
  /\ phase = "declared"
  /\ request = NoRequest
  /\ in = NotConstructed
  /\ out = NotConstructed
  /\ in1 = Absent
  /\ in2 = Absent
  /\ ret = NoPort
  /\ fault = NoFault
  /\ u1 = Dimensionless
  /\ u2 = Dimensionless
  /\ u3 = Dimensionless
  /\ res = NoResult
  /\ upstream = <<>>
  /\ pc = Idle
  /\ snap = NoSnap
  /\ cycles = 0
  /\ funcRuns = 0

\* both blocks are instantiated: the types of their members `in` and `out`
BuildTwins ==
  /\ ~twin.built
  /\ twin' = [built |-> TRUE, defn |-> twin.defn, a |-> twin.a, b |-> twin.b,
              inA |-> InputSide(twin.a),
              inB |-> InputSide(twin.b),
              outA |-> IF twin.defn = "first" THEN OutputSide(twin.a)
                       ELSE generateMOutputs2(twin.a),
              outB |-> IF twin.defn = "first" THEN OutputSide(twin.b)
                       ELSE generateMOutputs2(twin.b)]
  /\ lastOp' = Op("instantiate", 0)
  /\ UNCHANGED <<kind, name, N, M, Uin, Uout, mulUin, func, phase, request, in, out,
                 in1, in2, ret, fault>>
  /\ UNCHANGED unitVars
  /\ UNCHANGED <<upstream, pc, snap, cycles, funcRuns, hal>>

NextTwin == BuildTwins

SpecTwin == InitTwin /\ [][NextTwin]_vars

(***************************************************************************)
(* Wiring: the inputs of the block are connected to outputs of other       *)
(* blocks before the cycles begin                                          *)
(***************************************************************************)
\* the unit an input is declared with
DeclaredInputUnit(k) == IF kind = "Mul" THEN mulUin[k] ELSE Uin[k]

\* the unit in the type of input k: Input<In1T, Uin[0]> in1, Input<In2T, Uin[1]> in2,
\* or the element type of `in`
InputUnitTag(k) ==
  IF kind = "Mul" THEN mulUin[k]
  ELSE generateNInputs(N, Uin, InitialInput).ports[k].unit

\* the value type of the inputs: Tin, which is C = Matrix<N,1,T> in a DeMux
InputType == IF kind = "DeMux" THEN "Matrix" ELSE "double"

\* the outputs of other blocks an input may be given to connect to
UpstreamOutputs == [unit : UnitChoices, type : ValueTypes \cup {"Matrix"}]

\* connect(input, output) is accepted when units and value types are equal
connectAccepted(k, o) == SIUnitEq(InputUnitTag(k), o.unit) /\ InputType = o.type

\* a program with a mismatched connection is refused at graph build
RejectConnect ==
  /\ phase = "declared"
  /\ \E k \in 1..NumInputs, o \in UpstreamOutputs :
       /\ ~connectAccepted(k, o)
       /\ request' = [acc |-> "connect", I |-> k, output |-> o]
  /\ phase' = "rejected"
  /\ lastOp' = Op("reject", 0)
  /\ UNCHANGED <<kind, name, N, M, Uin, Uout, mulUin, func, in, out, in1, in2, ret, fault>>
  /\ UNCHANGED unitVars
  /\ UNCHANGED auxVars

\* graph build: input k of the constructed block is connected to output o
Connect ==
  /\ phase = "built"
  /\ pc = Idle
  /\ \E k \in 1..NumInputs, o \in UpstreamOutputs :
       /\ upstream[k] = NoOutput
       /\ connectAccepted(k, o)
       /\ upstream' = [upstream EXCEPT ![k] = o]
       /\ lastOp' = Op("connect", k)
  /\ UNCHANGED <<kind, name, N, M, Uin, Uout, mulUin, func, phase, request, in, out,
                 in1, in2, ret, fault>>
  /\ UNCHANGED unitVars
  /\ UNCHANGED <<pc, snap, cycles, funcRuns, hal, twin>>

NextWire ==
  \/ RejectConnect
  \/ Construct
  \/ Connect
  \/ CycleRun
  \/ MulSetValue
  \/ MulSetTimestamp
  \/ DeMuxSetValue
  \/ DeMuxSetTimestamp

SpecWire == Init /\ [][NextWire]_vars

(***************************************************************************)
(* Properties                                                              *)
(***************************************************************************)
AllOf(units, u) == \A i \in DOMAIN units : units[i] = u

\* whether an exception's message mentions the string s
Mentions(f, s) == \E i \in DOMAIN f.what : f.what[i] = s

\* the uint8_t value an accessor received in the last call
LastIndex == lastOp.arg % UINT8

\* C1 as stated: a side with more than one port is the runtime-indexable collection
\* if and only if every declared unit of the side equals the first declared unit,
\* and the compile-time-indexed collection otherwise.
C1_HomogeneousIffEqualFirst ==
  phase = "built" =>
    /\ Multiple(N) => /\ in.shape = "Array" <=> AllOf(Uin, Uin[1])
                      /\ in.shape = "Tuple" <=> ~AllOf(Uin, Uin[1])
    /\ Multiple(M) => /\ out.shape = "Array" <=> AllOf(Uout, Uout[1])
                      /\ out.shape = "Tuple" <=> ~AllOf(Uout, Uout[1])

\* C1 amended: a side with more than one port is the runtime-indexable collection
\* if and only if every declared unit of the side is the dimensionless unit, and the
\* compile-time-indexed collection otherwise (also when all units are, say, Volt).
C1_HomogeneousIffDimensionless ==
  phase = "built" =>
    /\ Multiple(N) => /\ in.shape = "Array" <=> AllOf(Uin, Dimensionless)
                      /\ in.shape = "Tuple" <=> ~AllOf(Uin, Dimensionless)
    /\ Multiple(M) => /\ out.shape = "Array" <=> AllOf(Uout, Dimensionless)
                      /\ out.shape = "Tuple" <=> ~AllOf(Uout, Dimensionless)

\* a constructed block whose inputs are all declared in Volt and stored as a tuple
C1_Witness ==
  /\ phase = "built"
  /\ Multiple(N)
  /\ AllOf(Uin, Volt)
  /\ in.shape = "Tuple"

\* C2 as stated: on a side with k > 1 homogeneous ports, a runtime-index access with
\* index >= k raises an IndexOutOfBoundsFault that carries the block's name and the
\* offending index.
C2_FaultCarriesNameAndIndex ==
  /\ (lastOp.op = "getInIndex" /\ LastIndex >= N) =>
       /\ ret = NoPort
       /\ fault.type = "IndexOutOfBoundsFault"
       /\ Mentions(fault, name)
       /\ Mentions(fault, ToString(LastIndex))
  /\ (lastOp.op = "getOutIndex" /\ LastIndex >= M) =>
       /\ ret = NoPort
       /\ fault.type = "IndexOutOfBoundsFault"
       /\ Mentions(fault, name)
       /\ Mentions(fault, ToString(LastIndex))

\* C2 amended: on a side with k > 1 homogeneous ports, a runtime-index access whose
\* uint8_t index is >= k raises an IndexOutOfBoundsFault whose message carries the
\* block's name; the message does not carry the index.
C2_FaultCarriesName ==
  /\ (lastOp.op = "getInIndex" /\ LastIndex >= N) =>
       /\ ret = NoPort
       /\ fault.type = "IndexOutOfBoundsFault"
       /\ Mentions(fault, name)
       /\ ~Mentions(fault, ToString(LastIndex))
  /\ (lastOp.op = "getOutIndex" /\ LastIndex >= M) =>
       /\ ret = NoPort
       /\ fault.type = "IndexOutOfBoundsFault"
       /\ Mentions(fault, name)
       /\ ~Mentions(fault, ToString(LastIndex))

\* two homogeneous inputs, runtime index 2 requested, the fault raised
C2_Witness ==
  /\ N = 2
  /\ lastOp = Op("getInIndex", 2)
  /\ fault.type = "IndexOutOfBoundsFault"

\* C3: on a side with k > 1 homogeneous ports, for every i in [0,k) the runtime-index
\* access returns the same port, holding the same signal, as the compile-time-index
\* access, in every state reached by cycles, writes and accesses.
C3_RuntimeIndexIsCompileTimeIndex ==
  phase = "built" =>
    /\ (Multiple(N) /\ in.shape = "Array") =>
         \A i \in 0..(N - 1) :
           /\ getInIndex(i).fault = NoFault
           /\ getInIndex(i).ret = getInAt(i).ret
           /\ PortAt(getInIndex(i).ret).signal = PortAt(getInAt(i).ret).signal
    /\ (Multiple(M) /\ out.shape = "Array") =>
         \A i \in 0..(M - 1) :
           /\ getOutIndex(i).fault = NoFault
           /\ getOutIndex(i).ret = getOutAt(i).ret
           /\ PortAt(getOutIndex(i).ret).signal = PortAt(getOutAt(i).ret).signal
    /\ (lastOp.op = "getInIndex" /\ fault = NoFault) => ret = getInAt(LastIndex).ret
    /\ (lastOp.op = "getOutIndex" /\ fault = NoFault) => ret = getOutAt(LastIndex).ret

\* runtime index 1 returned the second input, which holds a written signal
C3_Witness ==
  /\ lastOp = Op("getInIndex", 1)
  /\ fault = NoFault
  /\ ret = getInAt(1).ret
  /\ PortAt(ret).signal # Signal(0, 0)
  /\ PortAt(ret).signal # PortAt(getInAt(0).ret).signal

\* C4: a runtime-index access that raises the out-of-bounds fault leaves the block
\* unchanged: the signal value, timestamp and owner of every input and output are the
\* same after the faulting access as before it, and so is everything later accesses
\* and cycles read.
C4_FaultLeavesBlockUnchanged ==
  [][(lastOp'.op \in {"getInIndex", "getOutIndex"} /\ fault'.type = "IndexOutOfBoundsFault")
       => /\ in' = in
          /\ out' = out
          /\ in1' = in1
          /\ in2' = in2
          /\ <<kind, name, N, M, Uin, Uout, mulUin, func, phase>>'
               = <<kind, name, N, M, Uin, Uout, mulUin, func, phase>>]_vars

\* an output access has faulted on a block whose outputs hold a written signal
C4_Witness ==
  /\ lastOp.op = "getOutIndex"
  /\ fault.type = "IndexOutOfBoundsFault"
  /\ out.ports[1].signal # Signal(0, 0)
  /\ in.shape # "Empty"

OutputsCleared == \A i \in DOMAIN out.ports : out.ports[i].signal = Signal(0, 0)

\* C5: right after construction every output signal is cleared (value zero, timestamp
\* empty), whatever the storage of the outputs and whichever constructor was used,
\* and nothing but a cycle changes an output, so this lasts until the first cycle.
C5_OutputsClearedAtConstruction ==
  /\ [](lastOp.op = "construct" => (Len(out.ports) = M /\ OutputsCleared))
  /\ [][(phase = "built" /\ lastOp'.op # "run") => out' = out]_vars

\* a block with heterogeneous outputs, constructed with a computation, not yet cycled
C5_Witness ==
  /\ lastOp.op = "construct"
  /\ out.shape = "Tuple"
  /\ func = "user"
  /\ OutputsCleared

OwnedOnce(p) == p.owner = This /\ p.setOwnerCalls = 1

\* C6: in every state after construction, every port of the block (each input, each
\* output, and the two inputs the multiplier declares itself) has the block as its
\* owner, set exactly once.
C6_OwnerSetOnce ==
  phase = "built" =>
    /\ Len(in.ports) = N
    /\ Len(out.ports) = M
    /\ \A i \in DOMAIN in.ports : OwnedOnce(in.ports[i])
    /\ \A i \in DOMAIN out.ports : OwnedOnce(out.ports[i])
    /\ kind = "Mul" => (OwnedOnce(in1) /\ OwnedOnce(in2))

\* a multiplier that has cycled: its inputs are still owned by it
C6_Witness ==
  /\ kind = "Mul"
  /\ lastOp.op = "run"
  /\ in1.owner = name
  /\ in2.owner = name
  /\ in1.signal # Signal(0, 0)

\* C7: after a cycle of the multiplier the output value is the product of the values
\* of the two inputs and the output timestamp is the timestamp of the first input.
C7_MulProductAndFirstTimestamp ==
  (kind = "Mul" /\ lastOp.op = "run") =>
    /\ out.ports[1].signal.value = in1.signal.value * in2.signal.value
    /\ out.ports[1].signal.timestamp = in1.signal.timestamp

\* a cycle with a nonzero product and inputs of different timestamps
C7_Witness ==
  /\ kind = "Mul"
  /\ lastOp.op = "run"
  /\ in1.signal.value * in2.signal.value > 0
  /\ in1.signal.timestamp # in2.signal.timestamp
  /\ in1.signal.timestamp # 0

DeMuxOutputsFollowInput ==
  \A i \in 1..M :
    /\ out.ports[i].signal.value = in.ports[1].signal.value[i]
    /\ out.ports[i].signal.timestamp = in.ports[1].signal.timestamp

\* C8 as stated: a demultiplexer with any output count N >= 1 can be cycled, and
\* after a cycle output i holds component i and the timestamp of the input, the
\* input being unchanged.
C8_DeMuxAnyCount ==
  /\ [](kind = "DeMux" /\ M >= 1 /\ AllOf(Uout, Dimensionless)
          => /\ ~(phase = "rejected" /\ request.acc = "run")
             /\ lastOp.op = "run" => DeMuxOutputsFollowInput)
  /\ [][(kind = "DeMux" /\ lastOp'.op = "run") => in' = in]_vars

\* C8 amended: a demultiplexer is built only with N >= 2 outputs that are all declared
\* dimensionless; after a cycle of such a demultiplexer output i holds component i and
\* the timestamp of the input, the input being unchanged.
C8_DeMuxManyDimensionless ==
  /\ [](kind = "DeMux"
          => /\ phase = "built" => (Multiple(M) /\ AllOf(Uout, Dimensionless))
             /\ lastOp.op = "run" => DeMuxOutputsFollowInput)
  /\ [][(kind = "DeMux" /\ lastOp'.op = "run") => in' = in]_vars

\* a cycle that left different values and a timestamp in the two outputs
C8_Witness ==
  /\ kind = "DeMux"
  /\ lastOp.op = "run"
  /\ out.ports[1].signal.value # out.ports[2].signal.value
  /\ out.ports[1].signal.timestamp # 0

\* member k of a unit as a number, false < true for the radian flag
MemberNum(u, k) == IF k = 8 THEN (IF u.radian THEN 1 ELSE 0) ELSE u[Members[k]]

\* a precedes b in the lexicographic order of the 8 members as listed
LexLess(a, b) ==
  \E k \in 1..8 :
    /\ \A j \in 1..(k - 1) : MemberNum(a, j) = MemberNum(b, j)
    /\ MemberNum(a, k) < MemberNum(b, k)

\* C9: u1 == u2 holds iff all 8 members are pairwise equal; equality is reflexive,
\* symmetric and transitive; the ordering is a total order, equal to the lexicographic
\* comparison of the 8 members in the listed order and consistent with equality.
C9_UnitEqualityAndOrder ==
  res.done =>
    /\ res.eq12 <=> \A k \in 1..8 : MemberNum(u1, k) = MemberNum(u2, k)
    /\ res.eq11
    /\ res.eq12 <=> res.eq21
    /\ (res.eq12 /\ res.eq23) => res.eq13
    /\ res.c12 \in {-1, 0, 1}
    /\ res.c11 = 0
    /\ res.c21 = 0 - res.c12
    /\ (res.c12 <= 0 /\ res.c23 <= 0) => res.c13 <= 0
    /\ (res.c12 < 0 /\ res.c23 <= 0) => res.c13 < 0
    /\ res.c12 < 0 <=> LexLess(u1, u2)
    /\ res.c12 > 0 <=> LexLess(u2, u1)
    /\ res.c12 = 0 <=> res.eq12

\* Watt and Joule agree in length and mass and are ordered by time; Joule and Volt
\* differ in time and in electric current
C9_Witness ==
  /\ res.done
  /\ u1 = Watt
  /\ u2 = Joule
  /\ u3 = Volt
  /\ res.c12 < 0
  /\ res.c23 > 0
  /\ ~res.eq12

Style(acc) ==
  CASE acc \in {"getIn", "getOut"} -> "plain"
    [] acc \in {"getInAt", "getOutAt"} -> "compile-time"
    [] acc \in {"getInIndex", "getOutIndex"} -> "runtime"
    [] OTHER -> "other"

\* the accessors a side of n ports offers, by cardinality class and homogeneity
Offered(n, homogeneous, style, I) ==
  CASE n = 0 -> FALSE
    [] n = 1 -> style = "plain"
    [] n > 1 -> \/ style = "compile-time" /\ I < n
                \/ style = "runtime" /\ homogeneous

InputAccessors == {r \in Requests : r.acc \in {"getIn", "getInAt", "getInIndex"}}
OutputAccessors == {r \in Requests : r.acc \in {"getOut", "getOutAt", "getOutIndex"}}

\* the accessors offered are as the table says, a rejected build never constructs or
\* runs the block, and every port reference returned came from an offered accessor
AccessorsAsOffered(homIn, homOut) ==
  /\ phase # "declared" =>
       /\ \A r \in InputAccessors :
            WellFormed(r.acc, r.I) <=> Offered(N, homIn, Style(r.acc), r.I)
       /\ \A r \in OutputAccessors :
            WellFormed(r.acc, r.I) <=> Offered(M, homOut, Style(r.acc), r.I)
  /\ phase = "rejected" =>
       /\ in = NotConstructed
       /\ out = NotConstructed
       /\ ret = NoPort
       /\ lastOp.op = "reject"
  /\ (Style(lastOp.op) # "other" /\ ret.side = "in")
       => Offered(N, homIn, Style(lastOp.op), lastOp.arg)
  /\ (Style(lastOp.op) # "other" /\ ret.side = "out")
       => Offered(M, homOut, Style(lastOp.op), lastOp.arg)

\* C10 as stated, a side being homogeneous when all its ports share one unit: a
\* zero-arity side offers no accessor, a single-port side the index-free accessor
\* only, a many+homogeneous side compile-time-index and runtime-index access, a
\* many+heterogeneous side compile-time-index access only; any other request is
\* rejected at build time.
C10_AccessorsByCardinalityAndSharedUnit ==
  AccessorsAsOffered(AllOf(Uin, IF N > 0 THEN Uin[1] ELSE Dimensionless),
                     AllOf(Uout, IF M > 0 THEN Uout[1] ELSE Dimensionless))

\* C10 amended: the same table, a many-port side counting as homogeneous when every
\* declared unit of the side is dimensionless.
C10_AccessorsByCardinalityAndDimensionless ==
  AccessorsAsOffered(AllOf(Uin, Dimensionless), AllOf(Uout, Dimensionless))

\* a program asking for runtime-index access to heterogeneous inputs was rejected
C10_Witness ==
  /\ phase = "rejected"
  /\ request.acc = "getInIndex"
  /\ Multiple(N)
  /\ ~AllOf(Uin, Dimensionless)

\* C18: the index of a runtime-index access and both port counts are 8-bit unsigned.
\* An index i the caller passes is reduced modulo 256 before the bounds check: the
\* access on a side of k ports throws exactly when (i mod 256) >= k and returns port
\* (i mod 256) otherwise, so 256 + j with j < k returns port j; a declared port count
\* outside 0..255 does not build.
C18_IndexReducedModulo256 ==
  /\ N < UINT8 /\ M < UINT8
  /\ (phase = "rejected" /\ request.acc = "portCount") => request.I >= UINT8
  /\ lastOp.op = "getInIndex" =>
       /\ fault.type = "IndexOutOfBoundsFault" <=> (lastOp.arg % UINT8) >= N
       /\ fault = NoFault <=> (lastOp.arg % UINT8) < N
       /\ fault = NoFault => ret = Returned("in", lastOp.arg % UINT8).ret
       /\ fault # NoFault => ret = NoPort
  /\ lastOp.op = "getOutIndex" =>
       /\ fault.type = "IndexOutOfBoundsFault" <=> (lastOp.arg % UINT8) >= M
       /\ fault = NoFault <=> (lastOp.arg % UINT8) < M
       /\ fault = NoFault => ret = Returned("out", lastOp.arg % UINT8).ret
       /\ fault # NoFault => ret = NoPort

\* the caller passed 257 on a two-input side and got the second input, no fault
C18_Witness ==
  /\ lastOp = Op("getInIndex", UINT8 + 1)
  /\ N = 2
  /\ fault = NoFault
  /\ ret = getInAt(1).ret

\* whether all seven exponents of u are zero and its radian flag is false
IsDimensionless(u) ==
  /\ \A f \in {"length", "mass", "time", "electric_current",
               "thermodynamic_temperature", "amount_of_substance",
               "luminous_intensity"} : u[f] = 0
  /\ u.radian = FALSE

\* C17: when a block is declared without unit arrays, every one of its N input ports
\* and M output ports is tagged with the dimensionless unit (all seven exponents
\* zero, radian false), for every N and M including 0; a many-port side declared
\* without units is therefore homogeneous and offers runtime-index access.
C17_DefaultUnitsDimensionless ==
  /\ \A n \in 0..MaxPorts :
       /\ Len(generateNSizeArray(n)) = n
       /\ \A i \in 1..n : IsDimensionless(generateNSizeArray(n)[i])
  /\ (phase = "built" /\ Uin = generateNSizeArray(N)) =>
       /\ Len(in.ports) = N
       /\ \A k \in DOMAIN in.ports : IsDimensionless(in.ports[k].unit)
       /\ Multiple(N) => in.shape = "Array" /\ WellFormed("getInIndex", 0)
  /\ (phase = "built" /\ Uout = generateNSizeArray(M)) =>
       /\ Len(out.ports) = M
       /\ \A k \in DOMAIN out.ports : IsDimensionless(out.ports[k].unit)
       /\ Multiple(M) => out.shape = "Array" /\ WellFormed("getOutIndex", 0)
  /\ (phase = "rejected" /\ Multiple(N) /\ Uin = generateNSizeArray(N)) =>
       request.acc # "getInIndex"
  /\ (phase = "rejected" /\ Multiple(M) /\ Uout = generateNSizeArray(M)) =>
       request.acc # "getOutIndex"

\* a block with no inputs and two outputs, declared without unit arrays, answered a
\* runtime-index access to its second output
C17_Witness ==
  /\ N = 0
  /\ M = 2
  /\ Uin = generateNSizeArray(0)
  /\ Uout = generateNSizeArray(2)
  /\ in.shape = "Empty"
  /\ lastOp = Op("getOutIndex", 1)
  /\ fault = NoFault
  /\ IsDimensionless(PortAt(ret).unit)

\* C12: under the single-caller cycle model no reader observes a partially written
\* signal: at every point where another block's cycle (or the scheduler) can read an
\* output, the output's value and timestamp were both produced by the same cycle
\* (or are both still as constructed), although Mul and DeMux write value and
\* timestamp in two separate steps; a read returns what was last written.
C12_NoPartiallyWrittenSignal ==
  /\ lastOp.op = "read" => pc = Idle
  /\ (phase = "built" /\ pc = Idle /\ kind \in {"Mul", "DeMux"} /\ snap = NoSnap) =>
       OutputsCleared
  /\ (phase = "built" /\ pc = Idle /\ kind = "Mul" /\ snap # NoSnap) =>
       out.ports[1].signal = Signal(snap[1].value * snap[2].value, snap[1].timestamp)
  /\ (phase = "built" /\ pc = Idle /\ kind = "DeMux" /\ snap # NoSnap) =>
       \A k \in 1..M : out.ports[k].signal = Signal(snap[1].value[k], snap[1].timestamp)

\* a multiplier's output was read after a cycle that left a nonzero product and a
\* nonzero timestamp, the first input having been written again since
C12_Witness ==
  /\ kind = "Mul"
  /\ lastOp.op = "read"
  /\ snap # NoSnap
  /\ out.ports[1].signal.value > 0
  /\ out.ports[1].signal.timestamp > 0
  /\ in1.signal # snap[1]

\* C13: each invocation of a generic block's cycle operation executes the stored
\* computation exactly once and nothing else; constructed without a computation, a
\* cycle leaves all input and output signals and owners unchanged, for any number
\* of cycles.
C13_CycleRunsFuncOnce ==
  /\ [](kind = "Blockio" => funcRuns = cycles)
  /\ [][(kind = "Blockio" /\ cycles' # cycles) =>
          /\ cycles' = cycles + 1
          /\ funcRuns' = funcRuns + 1
          /\ in' = in /\ in1' = in1 /\ in2' = in2
          /\ func = "none" => out' = out
          /\ out'.shape = out.shape
          /\ DOMAIN out'.ports = DOMAIN out.ports
          /\ \A k \in DOMAIN out.ports :
               /\ out'.ports[k].owner = out.ports[k].owner
               /\ out'.ports[k].unit = out.ports[k].unit
          /\ \E w \in GenericSigVals \cup {Signal(0, 0)} :
               \A k \in DOMAIN out.ports :
                 out'.ports[k].signal \in {w, out.ports[k].signal}]_vars

\* a block without a computation was cycled twice after its first input was written:
\* the input still holds what was written, the outputs are still cleared and owned
C13_Witness ==
  /\ kind = "Blockio"
  /\ func = "none"
  /\ cycles = 2
  /\ funcRuns = 2
  /\ N > 0 /\ M > 0
  /\ in.ports[1].signal # Signal(0, 0)
  /\ OutputsCleared
  /\ \A k \in DOMAIN out.ports : OwnedOnce(out.ports[k])

\* the parameters of the adapter other than those named in `fields` are unchanged
HalKeeps(fields) ==
  \A f \in {"id", "scale", "offset", "unit", "minIn", "maxIn"} \ fields : hal'[f] = hal[f]

\* C14: each of scale, offset, unit, minIn and maxIn of the scalable-input adapter can
\* be changed after construction: after setX(v) the matching getX() returns v and
\* every other parameter is unchanged; no setter or getter clamps or rejects a value
\* against [minIn, maxIn], minIn greater than maxIn included.
C14_SettersSetOnlyTheirField ==
  /\ [](\A v \in HalVals :
          /\ ENABLED HalCall("setScale", v, setScale(hal, v))
          /\ ENABLED HalCall("setOffset", v, setOffset(hal, v))
          /\ ENABLED HalCall("setMinIn", v, setMinIn(hal, v))
          /\ ENABLED HalCall("setMaxIn", v, setMaxIn(hal, v)))
  /\ [][/\ lastOp'.op = "setScale" => getScale(hal') = lastOp'.arg /\ HalKeeps({"scale"})
        /\ lastOp'.op = "setOffset" => getOffset(hal') = lastOp'.arg /\ HalKeeps({"offset"})
        /\ lastOp'.op = "setMinIn" => getMinIn(hal') = lastOp'.arg /\ HalKeeps({"minIn"})
        /\ lastOp'.op = "setMaxIn" => getMaxIn(hal') = lastOp'.arg /\ HalKeeps({"maxIn"})
        /\ lastOp'.op = "setUnit" =>
             getUnit(hal') = typeOfUnit[lastOp'.arg] /\ HalKeeps({"unit"})]_vars

\* the lower bound was set above the upper bound and is returned as set, with a scale
\* and offset that were set before
C14_Witness ==
  /\ lastOp = Op("setMinIn", 1)
  /\ getMinIn(hal) = 1
  /\ getMaxIn(hal) = 0
  /\ getScale(hal) = 1
  /\ getOffset(hal) = 1
  /\ getUnit(hal) = Volt

\* C15: the named-unit registry maps exactly "W", "N", "J", "V" and "rad" to the power,
\* force, energy, potential and angle constants; the five constants are pairwise
\* unequal and each unequal to the dimensionless unit, so a power-tagged port never
\* compares unit-equal to a voltage-tagged one.
C15_RegistryOfDistinctUnits ==
  /\ DOMAIN typeOfUnit = {"W", "N", "J", "V", "rad"}
  /\ typeOfUnit["W"] = Watt
  /\ typeOfUnit["N"] = Newton
  /\ typeOfUnit["J"] = Joule
  /\ typeOfUnit["V"] = Volt
  /\ typeOfUnit["rad"] = Radian
  /\ \A a \in DOMAIN typeOfUnit :
       /\ ~SIUnitEq(typeOfUnit[a], Dimensionless)
       /\ ThreeWay(typeOfUnit[a], Dimensionless) # 0
       /\ \A b \in DOMAIN typeOfUnit \ {a} :
            /\ ~SIUnitEq(typeOfUnit[a], typeOfUnit[b])
            /\ ThreeWay(typeOfUnit[a], typeOfUnit[b]) # 0
  /\ lastOp.op = "setUnit" =>
       /\ getUnit(hal) = typeOfUnit[lastOp.arg]
       /\ \A b \in DOMAIN typeOfUnit \ {lastOp.arg} : ~SIUnitEq(getUnit(hal), typeOfUnit[b])

\* an adapter tagged with the unit registered as "W": it is Watt and not Volt
C15_Witness ==
  /\ lastOp = Op("setUnit", "W")
  /\ getUnit(hal) = Watt
  /\ ~SIUnitEq(getUnit(hal), typeOfUnit["V"])

\* whether side `sd` has exactly `n` ports of value type `type`, port k tagged units[k]
SideAsDeclared(sd, n, type, units) ==
  /\ Len(sd.ports) = n
  /\ \A k \in 1..n : k \in DOMAIN sd.ports => sd.ports[k] = [unit |-> units[k], type |-> type]

\* C16 as stated: storage shape, port count, value type and per-port units of a block's
\* output side are determined by M, the output value type and the output unit array
\* alone, and those of the input side by N, the input value type and the input unit
\* array alone: two blocks that differ only in their input declarations have
\* identical output sides (exactly M output ports, each tagged with its declared
\* output unit), and vice versa.
C16_SidesIndependent ==
  twin.built =>
    /\ OutputDecl(twin.a) = OutputDecl(twin.b) => twin.outA = twin.outB
    /\ InputDecl(twin.a) = InputDecl(twin.b) => twin.inA = twin.inB
    /\ SideAsDeclared(twin.outA, twin.a.M, twin.a.Tout, twin.a.Uout)
    /\ SideAsDeclared(twin.outB, twin.b.M, twin.b.Tout, twin.b.Uout)
    /\ SideAsDeclared(twin.inA, twin.a.N, twin.a.Tin, twin.a.Uin)
    /\ SideAsDeclared(twin.inB, twin.b.N, twin.b.Tin, twin.b.Uin)

\* the port that input k is, once the block is constructed
InputPort(k) == IF kind = "Mul" THEN (IF k = 1 THEN in1 ELSE in2) ELSE in.ports[k]

\* whether a cycle of the block has begun
CycleBegun == cycles > 0 \/ snap # NoSnap \/ pc # Idle

\* C11: a connection between an Input and an Output is accepted only when the Input's
\* unit equals the Output's unit and their value types are equal; a mismatch is a
\* configuration fault during graph build and prevents the cycle loop from starting,
\* so in every state reached after the first cycle has begun, every connected Input
\* has the unit and value type of its upstream Output and no configuration fault
\* occurs.
C11_ConnectedUnitsAndTypesMatch ==
  /\ [](phase = "built" =>
          \A k \in 1..NumInputs :
            upstream[k] # NoOutput =>
              /\ SIUnitEq(DeclaredInputUnit(k), upstream[k].unit)
              /\ SIUnitEq(InputPort(k).unit, upstream[k].unit)
              /\ InputType = upstream[k].type)
  /\ [](phase # "built" =>
          /\ ~CycleBegun
          /\ \A k \in 1..NumInputs : upstream[k] = NoOutput)
  /\ [](phase = "rejected" =>
          /\ request.acc = "connect"
          /\ \/ ~SIUnitEq(DeclaredInputUnit(request.I), request.output.unit)
             \/ InputType # request.output.type)
  /\ [][CycleBegun => (phase' = "built" /\ CycleBegun')]_vars
  /\ [][phase = "rejected" => UNCHANGED vars]_vars

\* a demultiplexer whose Volt input is connected to a Volt output of vectors is cycling
C11_Witness ==
  /\ kind = "DeMux"
  /\ CycleBegun
  /\ DeclaredInputUnit(1) = Volt
  /\ upstream[1] = [unit |-> Volt, type |-> "Matrix"]

====
